---------------------------- MODULE Spec2Model ----------------------------
(***************************************************************************)
(* Code Mood Analyzer: the metrics collector (analyzeCode), the mood       *)
(* classifier (determineMood), the suggestion generator                    *)
(* (generateSuggestions) and the aggregation over file results             *)
(* (calculateAggregateMood).                                               *)
(*                                                                         *)
(* Numbers are JavaScript doubles in the source.  Every quantity below is  *)
(* an integer of small magnitude, so sums and products are exact.  A       *)
(* quotient a / b that the source compares with a decimal literal p / q is *)
(* kept as the pair <<a, b>> and compared by cross-multiplication: IEEE    *)
(* division is correctly rounded and monotone, and fl(a / b) equals the    *)
(* literal exactly when a * q = p * b for the magnitudes modelled here.    *)
(***************************************************************************)
EXTENDS Integers, Sequences, FiniteSets, TLC

VARIABLES code, metrics, moodResult, suggestions, results, aggregate, pc,
          codeType, fs, files, cursor, analyzed, calls,
          args, exitCode, effects

vars ==
  <<code, metrics, moodResult, suggestions, results, aggregate, pc,
    codeType, fs, files, cursor, analyzed, calls, args, exitCode, effects>>

\* The command line, the exit status of the process, and what main has
\* printed and asked the file system so far.
cliVars == <<args, exitCode, effects>>

\* The state of main in directory mode.
mainVars == <<fs, files, cursor, analyzed, calls, cliVars>>

-----------------------------------------------------------------------------
(* Arithmetic helpers                                                      *)

Max(a, b) == IF a >= b THEN a ELSE b

Min(a, b) == IF a <= b THEN a ELSE b

\* JavaScript `x || 1` on a number: 0 is falsy, every other number is kept.
OrOne(x) == IF x = 0 THEN 1 ELSE x

\* a[1] / a[2] >= b[1] / b[2] for positive denominators
RatioGE(a, b) == a[1] * b[2] >= b[1] * a[2]

\* a[1] / a[2] > b[1] / b[2] for positive denominators
RatioGT(a, b) == a[1] * b[2] > b[1] * a[2]

\* a[1] / a[2] < b[1] / b[2] for positive denominators
RatioLT(a, b) == a[1] * b[2] < b[1] * a[2]

-----------------------------------------------------------------------------
(* Static tables                                                           *)

BandMoods == {"ecstatic", "happy", "content", "neutral", "stressed", "frustrated", "sad"}

SpecialMoods == {"zen", "chaotic", "mysterious"}

Moods == BandMoods \cup SpecialMoods

\* The glyphs are written as their code points.
MOOD_EMOJIS ==
  [ecstatic |-> "U+1F389", happy |-> "U+1F60A", content |-> "U+1F642",
   neutral |-> "U+1F610", stressed |-> "U+1F630", frustrated |-> "U+1F624",
   sad |-> "U+1F622", zen |-> "U+1F9D8", chaotic |-> "U+1F32A U+FE0F",
   mysterious |-> "U+1F52E"]

MOOD_DESCRIPTIONS ==
  [ecstatic |-> "This code is absolutely thriving! The developer was clearly in a great mood.",
   happy |-> "Pleasant vibes here! The code seems well-maintained and loved.",
   content |-> "Steady and stable. This code is doing its job without complaints.",
   neutral |-> "Neither happy nor sad. Just code being code.",
   stressed |-> "Uh oh! This code might be under some pressure. Watch out for deadlines!",
   frustrated |-> "Someone was having a rough day. Consider some code therapy.",
   sad |-> "This code needs a hug. Maybe some refactoring would help?",
   zen |-> "Perfectly balanced, as all code should be. Clean, documented, harmonious.",
   chaotic |-> "Wild and unpredictable! This code lives life on the edge.",
   mysterious |-> "Enigmatic code that keeps its secrets close. What does it really do?"]

-----------------------------------------------------------------------------
(* Text: a string is the sequence of its characters                        *)

\* The characters String.prototype.trim removes and \s matches, among the
\* characters of the modelled texts.  A line holds no "\n" after the split.
WhiteSpace == {" ", "\t", "\r", "\n"}

UpperCase ==
  <<"A", "B", "C", "D", "E", "F", "G", "H", "I", "J", "K", "L", "M",
    "N", "O", "P", "Q", "R", "S", "T", "U", "V", "W", "X", "Y", "Z">>

LowerCase ==
  <<"a", "b", "c", "d", "e", "f", "g", "h", "i", "j", "k", "l", "m",
    "n", "o", "p", "q", "r", "s", "t", "u", "v", "w", "x", "y", "z">>

Range(f) == {f[i] : i \in DOMAIN f}

\* \w
WordChars ==
  Range(UpperCase) \cup Range(LowerCase)
    \cup {"0", "1", "2", "3", "4", "5", "6", "7", "8", "9", "_"}

LowerOf == [c \in Range(UpperCase) |-> LowerCase[CHOOSE i \in 1..26 : UpperCase[i] = c]]

toLowerChar(c) == IF c \in Range(UpperCase) THEN LowerOf[c] ELSE c

\* String.prototype.toLowerCase
toLowerCase(str) == [i \in 1..Len(str) |-> toLowerChar(str[i])]

\* str.split('\n'): the segments between the newlines, at least one.
RECURSIVE splitFrom(_, _, _, _)
splitFrom(str, i, current, done) ==
  IF i > Len(str) THEN Append(done, current)
  ELSE IF str[i] = "\n" THEN splitFrom(str, i + 1, <<>>, Append(done, current))
  ELSE splitFrom(str, i + 1, Append(current, str[i]), done)

\* Mutant: an empty last segment is dropped.
split_dropLast(str) ==
  LET all == splitFrom(str, 1, <<>>, <<>>)
  IN  IF all[Len(all)] = <<>> THEN SubSeq(all, 1, Len(all) - 1) ELSE all

split(str) == splitFrom(str, 1, <<>>, <<>>)

RECURSIVE trimStart(_)
trimStart(str) ==
  IF str # <<>> /\ Head(str) \in WhiteSpace THEN trimStart(Tail(str)) ELSE str

RECURSIVE trimEnd(_)
trimEnd(str) ==
  IF str # <<>> /\ str[Len(str)] \in WhiteSpace
  THEN trimEnd(SubSeq(str, 1, Len(str) - 1))
  ELSE str

\* String.prototype.trim
trim(str) == trimEnd(trimStart(str))

\* The literal `word` stands in str at position p.
litAt(str, p, word) ==
  /\ p >= 1
  /\ p + Len(word) - 1 <= Len(str)
  /\ SubSeq(str, p, p + Len(word) - 1) = word

\* String.prototype.startsWith
startsWith(str, prefix) == litAt(str, 1, prefix)

\* (str.match(/c/g) || []).length for a single character c
countChar(str, c) == Cardinality({i \in 1..Len(str) : str[i] = c})

\* (str.match(/word/g) || []).length: the matches are taken left to right
\* and the search resumes behind each match.
RECURSIVE countLiteralFrom(_, _, _)
countLiteralFrom(str, p, word) ==
  IF p + Len(word) - 1 > Len(str) THEN 0
  ELSE IF litAt(str, p, word) THEN 1 + countLiteralFrom(str, p + Len(word), word)
  ELSE countLiteralFrom(str, p + 1, word)

countLiteral(str, word) == countLiteralFrom(str, 1, word)

\* Regular expressions.  A position is the index of the next character to
\* read, 1..Len(str)+1; each operator maps the set of positions a match may
\* have reached to the set it may reach behind one more piece of the pattern,
\* so a non-empty final set means that the pattern matches somewhere.
Positions(str) == 1..(Len(str) + 1)

isWordAt(str, p) == p >= 1 /\ p <= Len(str) /\ str[p] \in WordChars

\* \b
reBoundary(str, P) == {p \in P : isWordAt(str, p - 1) # isWordAt(str, p)}

\* a literal
reLit(str, P, word) == {p + Len(word) : p \in {q \in P : litAt(str, q, word)}}

\* class*
reStar(str, P, class) ==
  {q \in Positions(str) :
     \E p \in P : p <= q /\ \A k \in p..(q - 1) : str[k] \in class}

\* class+
rePlus(str, P, class) ==
  {q \in Positions(str) :
     \E p \in P : p < q /\ \A k \in p..(q - 1) : str[k] \in class}

\* /function\s+\w+|=>\s*{|\bconst\s+\w+\s*=\s*(?:async\s+)?(?:function|\()/
functionPattern(line) ==
  LET all == Positions(line)
      func == rePlus(line, rePlus(line, reLit(line, all, <<"f","u","n","c","t","i","o","n">>),
                                  WhiteSpace), WordChars)
      arrow == reLit(line, reStar(line, reLit(line, all, <<"=", ">">>), WhiteSpace), <<"{">>)
      name == rePlus(line, rePlus(line, reLit(line, reBoundary(line, all),
                                              <<"c","o","n","s","t">>),
                                  WhiteSpace), WordChars)
      assign == reStar(line, reLit(line, reStar(line, name, WhiteSpace), <<"=">>), WhiteSpace)
      async == assign \cup rePlus(line, reLit(line, assign, <<"a","s","y","n","c">>), WhiteSpace)
      expr == reLit(line, async, <<"f","u","n","c","t","i","o","n">>)
                \cup reLit(line, async, <<"(">>)
  IN  func \cup arrow \cup expr # {}

\* /(?:const|let|var)\s+\w+/
variablePattern(line) ==
  LET all == Positions(line)
      keyword == reLit(line, all, <<"c","o","n","s","t">>)
                   \cup reLit(line, all, <<"l","e","t">>)
                   \cup reLit(line, all, <<"v","a","r">>)
  IN  rePlus(line, rePlus(line, keyword, WhiteSpace), WordChars) # {}

\* /(?:describe|it|test|expect|assert)\s*\(/
testPattern(str) ==
  LET all == Positions(str)
      keyword == reLit(str, all, <<"d","e","s","c","r","i","b","e">>)
                   \cup reLit(str, all, <<"i","t">>)
                   \cup reLit(str, all, <<"t","e","s","t">>)
                   \cup reLit(str, all, <<"e","x","p","e","c","t">>)
                   \cup reLit(str, all, <<"a","s","s","e","r","t">>)
  IN  reLit(str, reStar(str, keyword, WhiteSpace), <<"(">>) # {}

\* (code.match(new RegExp(`\\b${word}\\b`, 'gi')) || []).length.  A match
\* holds letters only, so no boundary lies inside it and no two matches
\* overlap: the matches are the positions where one starts.  The flag i
\* compares letters without case: the lower-case word against the
\* lower-cased text.
countWord(str, word) ==
  LET lower == toLowerCase(str)
  IN  Cardinality({p \in reBoundary(lower, Positions(lower)) :
                     reBoundary(lower, reLit(lower, {p}, word)) # {}})

RECURSIVE sumWords(_, _, _)
sumWords(str, words, i) ==
  IF i > Len(words) THEN 0
  ELSE countWord(str, words[i]) + sumWords(str, words, i + 1)

-----------------------------------------------------------------------------
(* analyzeCode                                                             *)

\* MOOD_INDICATORS.positive.words
PositiveWords ==
  << <<"s","u","c","c","e","s","s">>,
     <<"h","a","p","p","y">>,
     <<"g","r","e","a","t">>,
     <<"e","x","c","e","l","l","e","n","t">>,
     <<"g","o","o","d">>,
     <<"n","i","c","e">>,
     <<"a","w","e","s","o","m","e">>,
     <<"p","e","r","f","e","c","t">>,
     <<"w","o","n","d","e","r","f","u","l">>,
     <<"b","e","a","u","t","i","f","u","l">>,
     <<"c","l","e","a","n">>,
     <<"e","l","e","g","a","n","t">> >>

\* MOOD_INDICATORS.negative.words
NegativeWords ==
  << <<"h","a","c","k">>,
     <<"f","i","x","m","e">>,
     <<"b","u","g">>,
     <<"u","g","l","y">>,
     <<"t","e","r","r","i","b","l","e">>,
     <<"b","a","d">>,
     <<"b","r","o","k","e","n">>,
     <<"d","e","p","r","e","c","a","t","e","d">>,
     <<"l","e","g","a","c","y">>,
     <<"w","t","f">>,
     <<"h","o","r","r","i","b","l","e">>,
     <<"n","i","g","h","t","m","a","r","e">> >>

\* MOOD_INDICATORS.stress.words
StressWords ==
  << <<"u","r","g","e","n","t">>,
     <<"a","s","a","p">>,
     <<"c","r","i","t","i","c","a","l">>,
     <<"e","m","e","r","g","e","n","c","y">>,
     <<"d","e","a","d","l","i","n","e">>,
     <<"h","u","r","r","y">>,
     <<"r","u","s","h">> >>

\* shortestNonEmptyLine starts at Infinity in the source; Infinity is
\* written -1 here, a value no length takes.
Infinity == -1

\* Mutant: the smaller of the two numbers, whatever a stands for.
minLength_plain(a, b) == Min(a, b)

\* Math.min(a, b) where a may be Infinity
minLength(a, b) == IF a = Infinity THEN b ELSE Min(a, b)

\* The metrics record as analyzeCode initialises it, before the scan.
InitialMetrics(filename, totalLines) ==
  [filename |-> filename, totalLines |-> totalLines, codeLines |-> 0,
   commentLines |-> 0, blankLines |-> 0, avgLineLength |-> 0,
   longestLine |-> 0, shortestNonEmptyLine |-> Infinity,
   exclamationMarks |-> 0, questionMarks |-> 0, positiveWords |-> 0,
   negativeWords |-> 0, stressWords |-> 0, todoCount |-> 0, fixmeCount |-> 0,
   hackCount |-> 0, functionCount |-> 0, variableDeclarations |-> 0,
   nestingDepth |-> 0, hasTests |-> FALSE]

\* Mutant: an empty line is not told apart from a line of code.
lineKind_noBlank(trimmed) ==
  IF \/ startsWith(trimmed, <<"/", "/">>)
     \/ startsWith(trimmed, <<"/", "*">>)
     \/ startsWith(trimmed, <<"*">>)
  THEN "commentLines"
  ELSE "codeLines"

\* The counter the if / else-if / else at the head of the loop increments.
lineKind(trimmed) ==
  IF trimmed = <<>> THEN "blankLines"
  ELSE IF \/ startsWith(trimmed, <<"/", "/">>)
          \/ startsWith(trimmed, <<"/", "*">>)
          \/ startsWith(trimmed, <<"*">>)
  THEN "commentLines"
  ELSE "codeLines"

\* Mutant: the depth is sampled behind the opening braces of the line, before
\* its closing braces are taken off.
scanLine_peakDepth(st, line) ==
  LET trimmed == trim(line)
      kind == lineKind(trimmed)
      m1 == [st.m EXCEPT ![kind] = @ + 1]
      m2 == IF Len(trimmed) > 0
            THEN [m1 EXCEPT
                    !.longestLine = Max(@, Len(trimmed)),
                    !.shortestNonEmptyLine = minLength(@, Len(trimmed))]
            ELSE m1
      m3 == [m2 EXCEPT
               !.exclamationMarks = @ + countChar(line, "!"),
               !.questionMarks = @ + countChar(line, "?")]
      peak == st.currentDepth + countChar(line, "{")
      m4 == IF functionPattern(line)
            THEN [m3 EXCEPT !.functionCount = @ + 1] ELSE m3
      m5 == IF variablePattern(line)
            THEN [m4 EXCEPT !.variableDeclarations = @ + 1] ELSE m4
  IN  [m |-> m5,
       currentDepth |-> peak - countChar(line, "}"),
       maxDepth |-> Max(st.maxDepth, peak),
       totalLength |-> st.totalLength + Len(trimmed)]

\* One pass of the loop body: st holds the metrics record m and the locals
\* currentDepth, maxDepth and totalLength.
scanLine(st, line) ==
  LET trimmed == trim(line)
      kind == lineKind(trimmed)
      m1 == [st.m EXCEPT ![kind] = @ + 1]
      m2 == IF Len(trimmed) > 0
            THEN [m1 EXCEPT
                    !.longestLine = Max(@, Len(trimmed)),
                    !.shortestNonEmptyLine = minLength(@, Len(trimmed))]
            ELSE m1
      m3 == [m2 EXCEPT
               !.exclamationMarks = @ + countChar(line, "!"),
               !.questionMarks = @ + countChar(line, "?")]
      depth == st.currentDepth + countChar(line, "{") - countChar(line, "}")
      m4 == IF functionPattern(line)
            THEN [m3 EXCEPT !.functionCount = @ + 1] ELSE m3
      m5 == IF variablePattern(line)
            THEN [m4 EXCEPT !.variableDeclarations = @ + 1] ELSE m4
  IN  [m |-> m5,
       currentDepth |-> depth,
       maxDepth |-> Max(st.maxDepth, depth),
       totalLength |-> st.totalLength + (IF Len(trimmed) > 0 THEN Len(trimmed) ELSE 0)]

\* for (const line of lines) { ... }, from line i on
RECURSIVE scanLines(_, _, _)
scanLines(lines, i, st) ==
  IF i > Len(lines) THEN st
  ELSE scanLines(lines, i + 1, scanLine(st, lines[i]))

\* Mutant: the quotient is truncated instead of rounded.
roundQuotient_truncate(num, den) == num \div den

\* Math.round(num / den) for den > 0: the nearest integer, a half going up.
roundQuotient(num, den) == (2 * num + den) \div (2 * den)

\* analyzeCode(code, filename) for a string code
analyzeCode(str, filename) ==
  LET lines == split(str)
      st == scanLines(lines, 1,
              [m |-> InitialMetrics(filename, Len(lines)),
               currentDepth |-> 0, maxDepth |-> 0, totalLength |-> 0])
      nonBlankLines == st.m.totalLines - st.m.blankLines
      lowerCode == toLowerCase(str)
  IN  [st.m EXCEPT
         !.avgLineLength =
            IF nonBlankLines > 0 THEN roundQuotient(st.totalLength, nonBlankLines) ELSE 0,
         !.nestingDepth = st.maxDepth,
         !.shortestNonEmptyLine = IF @ = Infinity THEN 0 ELSE @,
         !.positiveWords = @ + sumWords(str, PositiveWords, 1),
         !.negativeWords = @ + sumWords(str, NegativeWords, 1),
         !.stressWords = @ + sumWords(str, StressWords, 1),
         !.todoCount = countLiteral(lowerCode, <<"t","o","d","o">>),
         !.fixmeCount = countLiteral(lowerCode, <<"f","i","x","m","e">>),
         !.hackCount = countLiteral(lowerCode, <<"h","a","c","k">>),
         !.hasTests = testPattern(str)]

-----------------------------------------------------------------------------
(* determineMood                                                           *)

\* const commentRatio = metrics.commentLines / (metrics.codeLines || 1)
commentRatio(m) == <<m.commentLines, OrOne(m.codeLines)>>

\* const punctuationDensity = (exclamationMarks + questionMarks) / (totalLines || 1)
punctuationDensity(m) == <<m.exclamationMarks + m.questionMarks, OrOne(m.totalLines)>>

\* Mutant: the lowest band reaches up to and including 0.05.
commentAdjust_inclusive(m) ==
  IF RatioGE(commentRatio(m), <<2, 10>>) THEN 15
  ELSE IF RatioGE(commentRatio(m), <<1, 10>>) THEN 5
  ELSE IF ~RatioGT(commentRatio(m), <<5, 100>>) THEN -10
  ELSE 0

commentAdjust(m) ==
  IF RatioGE(commentRatio(m), <<2, 10>>) THEN 15
  ELSE IF RatioGE(commentRatio(m), <<1, 10>>) THEN 5
  ELSE IF RatioLT(commentRatio(m), <<5, 100>>) THEN -10
  ELSE 0

wordAdjust(m) ==
  m.positiveWords * 5 - m.negativeWords * 8 - m.stressWords * 10

markerAdjust(m) ==
  0 - m.todoCount * 3 - m.fixmeCount * 5 - m.hackCount * 7

\* Mutant: very deep nesting costs no more than deep nesting.
nestingAdjust_flat(m) ==
  IF m.nestingDepth > 3 THEN -5 ELSE 0

nestingAdjust(m) ==
  IF m.nestingDepth > 5 THEN -15
  ELSE IF m.nestingDepth > 3 THEN -5
  ELSE 0

\* Mutant: the penalty is taken from the average line length.
lineAdjust_average(m) ==
  IF m.avgLineLength > 150 THEN -10
  ELSE IF m.avgLineLength > 100 THEN -5
  ELSE 0

lineAdjust(m) ==
  IF m.longestLine > 150 THEN -10
  ELSE IF m.longestLine > 100 THEN -5
  ELSE 0

punctuationAdjust(m) ==
  IF RatioGT(punctuationDensity(m), <<5, 10>>) THEN -15 ELSE 0

testsAdjust(m) == IF m.hasTests THEN 10 ELSE 0

\* The value of the local moodScore when the mood category is chosen.
moodScore(m) ==
  50 + commentAdjust(m) + wordAdjust(m) + markerAdjust(m) + nestingAdjust(m)
     + lineAdjust(m) + punctuationAdjust(m) + testsAdjust(m)

\* Mutant: a nesting depth of exactly 3 is no longer zen.
isZen_strict(m) ==
  /\ RatioGE(commentRatio(m), <<15, 100>>)
  /\ m.nestingDepth < 3
  /\ m.hackCount = 0

\* Mutant: hacks do not stand in the way of zen.
isZen_hacksAllowed(m) ==
  /\ RatioGE(commentRatio(m), <<15, 100>>)
  /\ m.nestingDepth <= 3

isZen(m) ==
  /\ RatioGE(commentRatio(m), <<15, 100>>)
  /\ m.nestingDepth <= 3
  /\ m.hackCount = 0

isChaotic(m) ==
  \/ m.nestingDepth > 5
  \/ RatioGT(punctuationDensity(m), <<3, 10>>)

isMysterious(m) ==
  /\ RatioLT(commentRatio(m), <<2, 100>>)
  /\ m.totalLines > 50

\* Mutant: the mysterious branch is tested before the chaotic one.
selectMood_mysteriousFirst(zen, chaotic, mysterious, score) ==
  IF zen /\ score >= 60 THEN "zen"
  ELSE IF mysterious THEN "mysterious"
  ELSE IF chaotic /\ score < 40 THEN "chaotic"
  ELSE IF score >= 80 THEN "ecstatic"
  ELSE IF score >= 65 THEN "happy"
  ELSE IF score >= 55 THEN "content"
  ELSE IF score >= 45 THEN "neutral"
  ELSE IF score >= 35 THEN "stressed"
  ELSE IF score >= 25 THEN "frustrated"
  ELSE "sad"

\* Mutant: the chaotic branch forgets its score condition.
selectMood_chaoticAnyScore(zen, chaotic, mysterious, score) ==
  IF zen /\ score >= 60 THEN "zen"
  ELSE IF chaotic THEN "chaotic"
  ELSE IF mysterious THEN "mysterious"
  ELSE IF score >= 80 THEN "ecstatic"
  ELSE IF score >= 65 THEN "happy"
  ELSE IF score >= 55 THEN "content"
  ELSE IF score >= 45 THEN "neutral"
  ELSE IF score >= 35 THEN "stressed"
  ELSE IF score >= 25 THEN "frustrated"
  ELSE "sad"

\* Mutant: the happy band starts above 65 instead of at 65.
selectMood_happyAbove(zen, chaotic, mysterious, score) ==
  IF zen /\ score >= 60 THEN "zen"
  ELSE IF chaotic /\ score < 40 THEN "chaotic"
  ELSE IF mysterious THEN "mysterious"
  ELSE IF score >= 80 THEN "ecstatic"
  ELSE IF score > 65 THEN "happy"
  ELSE IF score >= 55 THEN "content"
  ELSE IF score >= 45 THEN "neutral"
  ELSE IF score >= 35 THEN "stressed"
  ELSE IF score >= 25 THEN "frustrated"
  ELSE "sad"

\* Mutant: ecstatic asks for a score above the top of the reported range.
selectMood_ecstaticAboveRange(zen, chaotic, mysterious, score) ==
  IF zen /\ score >= 60 THEN "zen"
  ELSE IF chaotic /\ score < 40 THEN "chaotic"
  ELSE IF mysterious THEN "mysterious"
  ELSE IF score > 100 THEN "ecstatic"
  ELSE IF score >= 65 THEN "happy"
  ELSE IF score >= 55 THEN "content"
  ELSE IF score >= 45 THEN "neutral"
  ELSE IF score >= 35 THEN "stressed"
  ELSE IF score >= 25 THEN "frustrated"
  ELSE "sad"

\* The if / else-if chain that picks the mood category.
selectMood(zen, chaotic, mysterious, score) ==
  IF zen /\ score >= 60 THEN "zen"
  ELSE IF chaotic /\ score < 40 THEN "chaotic"
  ELSE IF mysterious THEN "mysterious"
  ELSE IF score >= 80 THEN "ecstatic"
  ELSE IF score >= 65 THEN "happy"
  ELSE IF score >= 55 THEN "content"
  ELSE IF score >= 45 THEN "neutral"
  ELSE IF score >= 35 THEN "stressed"
  ELSE IF score >= 25 THEN "frustrated"
  ELSE "sad"

\* Mutant: the lower cap is missing.
clampScore_noFloor(s) == Min(100, s)

\* Math.max(0, Math.min(100, moodScore))
clampScore(s) == Max(0, Min(100, s))

\* Mutant: the description is looked up in the table of the emojis.
determineMood_emojiTwice(m) ==
  LET mood == selectMood(isZen(m), isChaotic(m), isMysterious(m), moodScore(m))
  IN  [mood |-> mood,
       score |-> clampScore(moodScore(m)),
       emoji |-> MOOD_EMOJIS[mood],
       description |-> MOOD_EMOJIS[mood],
       isZen |-> isZen(m),
       isChaotic |-> isChaotic(m),
       isMysterious |-> isMysterious(m)]

determineMood(m) ==
  LET mood == selectMood(isZen(m), isChaotic(m), isMysterious(m), moodScore(m))
  IN  [mood |-> mood,
       score |-> clampScore(moodScore(m)),
       emoji |-> MOOD_EMOJIS[mood],
       description |-> MOOD_DESCRIPTIONS[mood],
       isZen |-> isZen(m),
       isChaotic |-> isChaotic(m),
       isMysterious |-> isMysterious(m)]

-----------------------------------------------------------------------------
(* Records                                                                 *)

\* Placeholders of the variables before the operation that sets them ran.
NoMetrics == InitialMetrics("", 0)

NoVerdict ==
  [mood |-> "", score |-> 0, emoji |-> "", description |-> "",
   isZen |-> FALSE, isChaotic |-> FALSE, isMysterious |-> FALSE]

NoAggregate ==
  [fileCount |-> 0, totals |-> <<>>, avgScore |-> 0, dominantMood |-> "",
   moodCounts |-> <<>>]

\* What the file system holds under a name: a directory with its entries in
\* the order readdirSync lists them, a regular file with its content, or a
\* symbolic link.  A directory or file that is not readable makes
\* readdirSync or readFileSync throw.
Directory(readable, entries) ==
  [kind |-> "directory", readable |-> readable, content |-> <<>>,
   entries |-> entries]

File(readable, content) ==
  [kind |-> "file", readable |-> readable, content |-> content,
   entries |-> <<>>]

SymbolicLink ==
  [kind |-> "link", readable |-> TRUE, content |-> <<>>, entries |-> <<>>]

\* A Dirent: the name of an entry and what it names.
Entry(name, node) == [name |-> name, node |-> node]

NoFileSystem == Directory(FALSE, <<>>)

\* main has not run.
MainIdle ==
  /\ fs = NoFileSystem
  /\ files = <<>>
  /\ cursor = 0
  /\ analyzed = <<>>
  /\ calls = <<>>
  /\ args = <<>>
  /\ exitCode = 0
  /\ effects = <<>>

-----------------------------------------------------------------------------
(* Inputs of determineMood                                                 *)

MaxComment == 4
MaxPositive == 2
MaxNegative == 1
ManyWords == 300

\* A metrics record with the fields determineMood reads set as given.
MoodRecord(tl, cl, cm, pw, nw, sw, td, fx, hk, nd, ll, ex, qm, ht) ==
  [NoMetrics EXCEPT
     !.filename = "test.js",
     !.totalLines = tl, !.codeLines = cl, !.commentLines = cm,
     !.positiveWords = pw, !.negativeWords = nw, !.stressWords = sw,
     !.todoCount = td, !.fixmeCount = fx, !.hackCount = hk,
     !.nestingDepth = nd, !.longestLine = ll,
     !.exclamationMarks = ex, !.questionMarks = qm, !.hasTests = ht,
     !.shortestNonEmptyLine = 0]

\* <<totalLines, codeLines, commentLines, nestingDepth, exclamationMarks,
\* questionMarks>> of four kinds of file: well commented and flat; long and
\* uncommented; short, deep and loud; no line counted at all.
ScoreProfiles ==
  { <<51, 20, 4, 3, 0, 0>>, <<51, 100, 0, 4, 0, 0>>,
    <<2, 20, 1, 6, 1, 1>>, <<0, 0, 0, 5, 0, 1>> }

\* The fields that decide the three flags vary over every threshold of the
\* classifier, with the word counts; the remaining additive fields rest.
InitMoodFlags ==
  \E tl \in {0, 2, 50, 51}, cl \in {0, 20, 100}, cm \in 0..MaxComment,
     pw \in (0..MaxPositive) \cup {ManyWords},
     nw \in (0..MaxNegative) \cup {ManyWords},
     sw \in {0, 1}, hk \in {0, 1}, nd \in {3, 4, 5, 6},
     ex \in {0, 1}, qm \in {0, 1}, ht \in BOOLEAN :
    metrics = MoodRecord(tl, cl, cm, pw, nw, sw, 0, 0, hk, nd, 100, ex, qm, ht)

\* Every additive field varies, on each of the profiles.
InitMoodScores ==
  \E p \in ScoreProfiles, pw \in 0..MaxPositive, nw \in 0..MaxNegative,
     sw \in {0, 1}, td \in {0, 1}, fx \in {0, 1}, hk \in {0, 1},
     ll \in {100, 101, 150, 151}, ht \in BOOLEAN :
    metrics = MoodRecord(p[1], p[2], p[3], pw, nw, sw, td, fx, hk, p[4], ll,
                         p[5], p[6], ht)

InitMood ==
  /\ InitMoodFlags \/ InitMoodScores
  /\ code = <<>>
  /\ codeType = "string"
  /\ MainIdle
  /\ moodResult = NoVerdict
  /\ suggestions = <<>>
  /\ results = <<>>
  /\ aggregate = NoAggregate
  /\ pc = "determineMood"

DetermineMood ==
  /\ pc = "determineMood"
  /\ moodResult' = determineMood(metrics)
  /\ pc' = "generateSuggestions"
  /\ UNCHANGED <<code, codeType, metrics, suggestions, results, aggregate, mainVars>>

NextMood == DetermineMood

SpecMood == InitMood /\ [][NextMood]_vars

-----------------------------------------------------------------------------
(* generateSuggestions                                                     *)

\* The messages; the leading glyph is written as its code point.
MsgComments == "U+1F4A1 Consider adding more comments to explain your code's intent"

MsgNesting == "U+1F504 Deep nesting detected! Consider extracting some logic into separate functions"

\* 'You have ' + metrics.hackCount + ' hack(s) in your code. ...'
MsgHacks(hackCount) ==
  "U+1F527 You have " \o ToString(hackCount) \o " hack(s) in your code. Time for some cleanup?"

MsgTodos == "U+1F4DD Lots of TODOs piling up! Maybe tackle a few today?"

MsgLongLines == "U+1F4CF Some lines are quite long. Consider breaking them up for readability"

MsgZen == "U+2728 Your code is in a great state! Keep up the good work"

MsgMysterious ==
  "U+1F52E Your code is shrouded in mystery. Future you will thank present you for comments!"

MsgTests == "U+1F9EA No tests detected! Consider adding some to ensure reliability"

\* if (cond) suggestions.push(msg)
pushIf(cond, list, msg) == IF cond THEN Append(list, msg) ELSE list

\* Mutant: three TODOs are already too many.
generateSuggestions_todoOffByOne(m, verdict) ==
  LET s1 == pushIf(RatioLT(<<m.commentLines, OrOne(m.codeLines)>>, <<1, 10>>), <<>>, MsgComments)
      s2 == pushIf(m.nestingDepth > 4, s1, MsgNesting)
      s3 == pushIf(m.hackCount > 0, s2, MsgHacks(m.hackCount))
      s4 == pushIf(m.todoCount >= 3, s3, MsgTodos)
      s5 == pushIf(m.longestLine > 120, s4, MsgLongLines)
      s6 == pushIf(verdict.mood = "zen", s5, MsgZen)
      s7 == pushIf(verdict.mood = "mysterious", s6, MsgMysterious)
  IN  pushIf(~m.hasTests /\ m.functionCount > 3, s7, MsgTests)

generateSuggestions(m, verdict) ==
  LET s1 == pushIf(RatioLT(<<m.commentLines, OrOne(m.codeLines)>>, <<1, 10>>), <<>>, MsgComments)
      s2 == pushIf(m.nestingDepth > 4, s1, MsgNesting)
      s3 == pushIf(m.hackCount > 0, s2, MsgHacks(m.hackCount))
      s4 == pushIf(m.todoCount > 3, s3, MsgTodos)
      s5 == pushIf(m.longestLine > 120, s4, MsgLongLines)
      s6 == pushIf(verdict.mood = "zen", s5, MsgZen)
      s7 == pushIf(verdict.mood = "mysterious", s6, MsgMysterious)
  IN  pushIf(~m.hasTests /\ m.functionCount > 3, s7, MsgTests)

MaxHack == 2

\* The tests call generateSuggestions with a metrics literal and a verdict
\* that holds a mood alone.
InitSuggest ==
  /\ \E cl \in {0, 20}, cm \in 0..MaxComment, nd \in {4, 5}, hk \in 0..MaxHack,
        td \in {3, 4}, ll \in {120, 121}, fc \in {3, 4}, ht \in BOOLEAN :
       metrics = [MoodRecord(100, cl, cm, 0, 0, 0, td, 0, hk, nd, ll, 0, 0, ht)
                    EXCEPT !.functionCount = fc]
  /\ \E mood \in Moods : moodResult = [NoVerdict EXCEPT !.mood = mood]
  /\ code = <<>>
  /\ codeType = "string"
  /\ MainIdle
  /\ suggestions = <<>>
  /\ results = <<>>
  /\ aggregate = NoAggregate
  /\ pc = "generateSuggestions"

GenerateSuggestions ==
  /\ pc = "generateSuggestions"
  /\ suggestions' = generateSuggestions(metrics, moodResult)
  /\ pc' = "done"
  /\ UNCHANGED <<code, codeType, metrics, moodResult, results, aggregate, mainVars>>

NextSuggest == GenerateSuggestions

SpecSuggest == InitSuggest /\ [][NextSuggest]_vars

-----------------------------------------------------------------------------
(* The analysis of one text: analyzeCode, determineMood and                *)
(* generateSuggestions in the order analyzeFile calls them                 *)

MaxChars == 4
MaxPhrases == 2

\* The characters that decide the kind of a line and the nesting depth.
Alphabet == {"\n", " ", "/", "*", "{", "}", "x"}

\* Pieces of text that the word, marker, punctuation and pattern counters
\* react to.
Phrases ==
  { <<"h","a","c","k">>, <<"T","O","D","O">>, <<"f","i","x","m","e">>,
    <<"G","o","o","d">>, <<"a","s","a","p">>, <<"i","n","g">>,
    <<"i","t"," ","(">>, <<"c","o","n","s","t"," ","f","=","(">>,
    <<"l","e","t","\t","a">>, <<"=",">","{">>,
    <<"!">>, <<"?">>, <<"\n">>, <<" ">> }

RECURSIVE concat(_, _)
concat(pieces, i) ==
  IF i > Len(pieces) THEN <<>> ELSE pieces[i] \o concat(pieces, i + 1)

Texts ==
  UNION {[1..n -> Alphabet] : n \in 0..MaxChars}
    \cup {concat(ps, 1) : ps \in UNION {[1..n -> Phrases] : n \in 0..MaxPhrases}}

\* The text is a string; a caller of the exported function can also pass
\* no text at all (undefined) or null.
InitAnalyze ==
  /\ \/ code \in Texts /\ codeType = "string"
     \/ code = <<>> /\ codeType \in {"null", "undefined"}
  /\ MainIdle
  /\ metrics = NoMetrics
  /\ moodResult = NoVerdict
  /\ suggestions = <<>>
  /\ results = <<>>
  /\ aggregate = NoAggregate
  /\ pc = "analyzeCode"

\* const metrics = analyzeCode(code, path.basename(filePath)); the tests
\* pass a name as well, and the parameter defaults to 'unknown'.  The
\* first statement, code.split('\n'), reads a property of code: when code is
\* null or undefined it throws a TypeError and nothing is returned.
AnalyzeCode ==
  /\ pc = "analyzeCode"
  /\ IF codeType = "string"
     THEN /\ \E filename \in {"test.js", "unknown"} :
               metrics' = analyzeCode(code, filename)
          /\ pc' = "determineMood"
     ELSE /\ pc' = "TypeError"
          /\ UNCHANGED metrics
  /\ UNCHANGED <<code, codeType, moodResult, suggestions, results, aggregate,
                 mainVars>>

NextAnalyze == AnalyzeCode \/ DetermineMood \/ GenerateSuggestions

SpecAnalyze == InitAnalyze /\ [][NextAnalyze]_vars

Spec == SpecAnalyze

\* const moodResult = determineMood(metrics); const suggestions =
\* generateSuggestions(metrics, moodResult): the two calls of analyzeFile on
\* the records of InitMood.
NextVerdict == DetermineMood \/ GenerateSuggestions

SpecVerdict == InitMood /\ [][NextVerdict]_vars

-----------------------------------------------------------------------------
(* calculateAggregateMood                                                  *)

TotalsFields ==
  {"totalLines", "codeLines", "commentLines", "positiveWords", "negativeWords",
   "stressWords", "todoCount", "fixmeCount", "hackCount", "functionCount"}

\* const totals = { totalLines: 0, ... }
ZeroTotals == [f \in TotalsFields |-> 0]

\* moodCounts[mood] = (moodCounts[mood] || 0) + 1.  The object keeps its
\* keys in insertion order: it is a sequence of <<mood, count>> entries.
countMood(moodCounts, mood) ==
  IF \E i \in 1..Len(moodCounts) : moodCounts[i][1] = mood
  THEN [i \in 1..Len(moodCounts) |->
          IF moodCounts[i][1] = mood
          THEN <<mood, moodCounts[i][2] + 1>>
          ELSE moodCounts[i]]
  ELSE Append(moodCounts, <<mood, 1>>)

\* One pass of the loop body over a result.
addResult(acc, result) ==
  [totals |-> [f \in TotalsFields |-> acc.totals[f] + result.metrics[f]],
   totalScore |-> acc.totalScore + result.moodResult.score,
   moodCounts |-> countMood(acc.moodCounts, result.moodResult.mood)]

\* for (const result of results) { ... }, from result i on
RECURSIVE aggregateLoop(_, _, _)
aggregateLoop(list, i, acc) ==
  IF i > Len(list) THEN acc
  ELSE aggregateLoop(list, i + 1, addResult(acc, list[i]))

\* A sort that puts an entry in front of its equals: among equal counts the
\* last mood seen comes first.
insertByCount_unstable(sorted, e) ==
  LET before == SelectSeq(sorted, LAMBDA x : x[2] > e[2])
      after == SelectSeq(sorted, LAMBDA x : x[2] <= e[2])
  IN  before \o <<e>> \o after

\* entries.sort((a, b) => b[1] - a[1]): a stable sort by descending count,
\* as an insertion of entry e into the sorted list behind its equals.
insertByCount(sorted, e) ==
  LET before == SelectSeq(sorted, LAMBDA x : x[2] >= e[2])
      after == SelectSeq(sorted, LAMBDA x : x[2] < e[2])
  IN  before \o <<e>> \o after

RECURSIVE sortByCount(_, _, _)
sortByCount(entries, i, sorted) ==
  IF i > Len(entries) THEN sorted
  ELSE sortByCount(entries, i + 1, insertByCount(sorted, entries[i]))

\* The value returned for a list that holds at least one result.
calculateAggregateMood(list) ==
  LET acc == aggregateLoop(list, 1,
               [totals |-> ZeroTotals, totalScore |-> 0, moodCounts |-> <<>>])
  IN  [fileCount |-> Len(list),
       totals |-> acc.totals,
       avgScore |-> roundQuotient(acc.totalScore, Len(list)),
       dominantMood |-> sortByCount(acc.moodCounts, 1, <<>>)[1][1],
       moodCounts |-> acc.moodCounts]

MaxResults == 3

\* <<totalLines, codeLines, commentLines, positiveWords, negativeWords,
\* stressWords, todoCount, fixmeCount, hackCount, functionCount>> of the
\* results the tests aggregate.
ResultMetrics ==
  { <<100, 80, 10, 5, 1, 0, 1, 0, 0, 5>>,
    <<50, 40, 5, 2, 3, 2, 3, 2, 1, 3>>,
    <<10, 10, 0, 0, 0, 0, 0, 0, 0, 1>> }

\* <<mood, score>> of the results the tests aggregate, and the two ends of
\* the score range.
ResultMoods ==
  { <<"happy", 70>>, <<"stressed", 35>>, <<"happy", 60>>, <<"happy", 65>>,
    <<"sad", 30>>, <<"sad", 0>>, <<"zen", 100>> }

ResultOf(t, v) ==
  [metrics |->
     [totalLines |-> t[1], codeLines |-> t[2], commentLines |-> t[3],
      positiveWords |-> t[4], negativeWords |-> t[5], stressWords |-> t[6],
      todoCount |-> t[7], fixmeCount |-> t[8], hackCount |-> t[9],
      functionCount |-> t[10]],
   moodResult |-> [mood |-> v[1], score |-> v[2]]]

InitAggregate ==
  /\ results = <<>>
  /\ aggregate = NoAggregate
  /\ metrics = NoMetrics
  /\ moodResult = NoVerdict
  /\ code = <<>>
  /\ codeType = "string"
  /\ MainIdle
  /\ suggestions = <<>>
  /\ pc = "collect"

\* results.push(result)
PushResult ==
  /\ pc = "collect"
  /\ Len(results) < MaxResults
  /\ \E t \in ResultMetrics, v \in ResultMoods :
       results' = Append(results, ResultOf(t, v))
  /\ UNCHANGED <<code, codeType, metrics, moodResult, suggestions, aggregate, pc,
               mainVars>>

\* const aggregate = calculateAggregateMood(results).  On an empty list
\* Object.entries(moodCounts).sort(...)[0] is undefined and reading its [0]
\* throws a TypeError: nothing is returned.
CalculateAggregateMood ==
  /\ pc = "collect"
  /\ IF Len(results) = 0
     THEN /\ pc' = "TypeError"
          /\ UNCHANGED aggregate
     ELSE /\ aggregate' = calculateAggregateMood(results)
          /\ pc' = "aggregated"
  /\ UNCHANGED <<code, codeType, metrics, moodResult, suggestions, results,
               mainVars>>

NextAggregate == PushResult \/ CalculateAggregateMood

SpecAggregate == InitAggregate /\ [][NextAggregate]_vars

-----------------------------------------------------------------------------
(* lib/fileUtils.js                                                        *)

\* File names and paths: a name is a sequence of characters, a path is the
\* sequence of the names that lead from the directory given to main to the
\* entry.  path.join(dirPath, name) appends a name, path.basename takes the
\* last one.
SUPPORTED_EXTENSIONS ==
  { <<".","j","s">>, <<".","t","s">>, <<".","j","s","x">>,
    <<".","t","s","x">>, <<".","p","y">>, <<".","j","a","v","a">>,
    <<".","c">>, <<".","c","p","p">>, <<".","c","s">>, <<".","g","o">>,
    <<".","r","b">>, <<".","r","s">>, <<".","p","h","p">>,
    <<".","s","w","i","f","t">> }

\* The directories getCodeFiles does not enter.
SkippedDirectories ==
  { <<"n","o","d","e","_","m","o","d","u","l","e","s">>, <<".","g","i","t">>,
    <<"d","i","s","t">>, <<"b","u","i","l","d">>,
    <<"c","o","v","e","r","a","g","e">>,
    <<"_","_","p","y","c","a","c","h","e","_","_">>, <<".","n","e","x","t">> }

\* path.extname(name) of a name without separators: the part from the last
\* "." on, and nothing when there is no "." or when the only "." is the
\* first character.
extname(name) ==
  LET dots == {i \in 1..Len(name) : name[i] = "."}
      last == CHOOSE i \in dots : \A k \in dots : k <= i
  IN  IF dots = {} \/ last = 1 THEN <<>> ELSE SubSeq(name, last, Len(name))

\* Mutant: the extension is compared as it is written.
isSupportedFile_caseSensitive(filename) ==
  extname(filename) \in SUPPORTED_EXTENSIONS

isSupportedFile(filename) ==
  toLowerCase(extname(filename)) \in SUPPORTED_EXTENSIONS

\* What the file system holds under a path that names nothing.
Missing ==
  [kind |-> "missing", readable |-> FALSE, content |-> <<>>, entries |-> <<>>]

\* What the path names in the file system, from its name i on under node.
RECURSIVE lookup(_, _, _)
lookup(node, filePath, i) ==
  IF i > Len(filePath) THEN node
  ELSE LET hits == {k \in 1..Len(node.entries) :
                      node.entries[k].name = filePath[i]}
       IN  IF hits = {} THEN Missing
           ELSE lookup(node.entries[CHOOSE k \in hits : TRUE].node,
                       filePath, i + 1)

\* A string, or null: what readFile hands to analyzeFile.
StringValue(chars) == [type |-> "string", chars |-> chars]
NullValue == [type |-> "null", chars |-> <<>>]

\* readFile(filePath): the content of a regular file that can be read; any
\* error of readFileSync is caught and null is returned.
readFile(filePath) ==
  LET node == lookup(fs, filePath, 1)
  IN  IF node.kind = "file" /\ node.readable
      THEN StringValue(node.content)
      ELSE NullValue

\* The default of the parameter maxDepth.
DefaultMaxDepth == 5

RECURSIVE getCodeFiles(_, _, _)
RECURSIVE walkEntries(_, _, _, _, _)

\* getCodeFiles(dirPath, depth = 0, maxDepth = 5).  A directory that
\* readdirSync cannot read throws before the loop; the catch logs the error
\* and the empty list is returned.
getCodeFiles(dirPath, depth, maxDepth) ==
  LET dir == lookup(fs, dirPath, 1)
  IN  IF depth > maxDepth THEN <<>>
      ELSE IF ~(dir.kind = "directory" /\ dir.readable) THEN <<>>
      ELSE walkEntries(dir.entries, 1, dirPath, depth, maxDepth)

\* for (const entry of entries) { ... }, from entry i on
walkEntries(entries, i, dirPath, depth, maxDepth) ==
  IF i > Len(entries) THEN <<>>
  ELSE LET entry == entries[i]
           fullPath == Append(dirPath, entry.name)
           found ==
             IF entry.node.kind = "directory"
             THEN IF entry.name \notin SkippedDirectories
                  THEN getCodeFiles(fullPath, depth + 1, maxDepth)
                  ELSE <<>>
             ELSE IF entry.node.kind = "file" /\ isSupportedFile(entry.name)
             THEN <<fullPath>>
             ELSE <<>>
       IN  found \o walkEntries(entries, i + 1, dirPath, depth, maxDepth)

-----------------------------------------------------------------------------
(* analyzeFile and main in directory mode                                  *)

\* The argument that names the directory the process runs in.
CurrentDirectory == <<".">>

\* const fullPath = path.resolve(target), as a path below the directory the
\* process runs in.
resolve(target) == IF target = CurrentDirectory THEN <<>> ELSE <<target>>

\* What analyzeFile returns: null, or the object { metrics, moodResult,
\* suggestions }.
NullResult ==
  [type |-> "null", metrics |-> NoMetrics, moodResult |-> NoVerdict,
   suggestions |-> <<>>]

\* !code: null is falsy, and so is the empty string.
isFalsy(value) == value.type = "null" \/ value.chars = <<>>

\* return { metrics, moodResult, suggestions } for the metrics m
analysisOf(m) ==
  [type |-> "object", metrics |-> m, moodResult |-> determineMood(m),
   suggestions |-> generateSuggestions(m, determineMood(m))]

\* The rest of analyzeFile once readFile has returned text, the constant
\* code of the source.
analyzeText(text, filePath) ==
  IF isFalsy(text) THEN NullResult
  ELSE analysisOf(analyzeCode(text.chars, filePath[Len(filePath)]))

analyzeFile(filePath) == analyzeText(readFile(filePath), filePath)

\* const files = getCodeFiles(fullPath); without files main returns, with
\* files it starts the loop on an empty list of results.
GetCodeFiles ==
  /\ pc = "getCodeFiles"
  /\ files' = getCodeFiles(resolve(args[1]), 0, DefaultMaxDepth)
  /\ IF Len(files') = 0
     THEN /\ pc' = "return"
          /\ UNCHANGED <<cursor, results>>
     ELSE /\ pc' = "analyzeFile"
          /\ cursor' = 1
          /\ results' = <<>>
  /\ UNCHANGED <<code, codeType, metrics, moodResult, suggestions, aggregate,
                 fs, analyzed, calls, cliVars>>

\* What one pass of the loop does with the result of analyzeFile(file):
\* results.push(result) when there is one.  analyzed records the call.
pushResult(file, result) ==
  /\ analyzed' = Append(analyzed, [file |-> file, result |-> result])
  /\ results' = IF result.type # "null" THEN Append(results, result)
                ELSE results

\* Mutant: the loop is left at the first file without a result.
AnalyzeFile_breakOnNull ==
  /\ pc = "analyzeFile"
  /\ cursor <= Len(files)
  /\ pushResult(files[cursor], analyzeFile(files[cursor]))
  /\ cursor' = IF Len(results') > Len(results) THEN cursor + 1
               ELSE Len(files) + 1
  /\ UNCHANGED <<code, codeType, metrics, moodResult, suggestions, aggregate,
                 pc, fs, files, calls, cliVars>>

\* One pass of for (const file of files) { const result = analyzeFile(file);
\* if (result) results.push(result) }
AnalyzeFile ==
  /\ pc = "analyzeFile"
  /\ cursor <= Len(files)
  /\ pushResult(files[cursor], analyzeFile(files[cursor]))
  /\ cursor' = cursor + 1
  /\ UNCHANGED <<code, codeType, metrics, moodResult, suggestions, aggregate,
                 pc, fs, files, calls, cliVars>>

\* Behind the loop: if (results.length > 0) calculateAggregateMood(results).
\* calls records the argument of the call.
AggregateResults ==
  /\ pc = "analyzeFile"
  /\ cursor > Len(files)
  /\ IF Len(results) > 0
     THEN /\ aggregate' = calculateAggregateMood(results)
          /\ calls' = Append(calls, results)
     ELSE UNCHANGED <<aggregate, calls>>
  /\ pc' = "return"
  /\ UNCHANGED <<code, codeType, metrics, moodResult, suggestions, results,
                 fs, files, cursor, analyzed, cliVars>>

MaxFiles == 3

\* Contents of files: a line of code, a comment with a positive word, a
\* marker with an exclamation mark.
SampleContents ==
  { <<"x">>, <<"/","/"," ","G","o","o","d">>,
    <<"h","a","c","k","!">> }

\* What a file of the directory can be: unreadable, empty, or with content.
SampleFiles ==
  {File(FALSE, <<>>), File(TRUE, <<>>)}
    \cup {File(TRUE, content) : content \in SampleContents}

\* The name of the file at place k of the directory.
FileName(k) == <<"f", ToString(k), ".", "j", "s">>

\* A directory of at most MaxFiles supported files, given to main.
InitDirectory ==
  /\ \E n \in 0..MaxFiles : \E nodes \in [1..n -> SampleFiles] :
       fs = Directory(TRUE, [k \in 1..n |-> Entry(FileName(k), nodes[k])])
  /\ args = <<CurrentDirectory>>
  /\ exitCode = 0
  /\ effects = <<>>
  /\ files = <<>>
  /\ cursor = 0
  /\ analyzed = <<>>
  /\ calls = <<>>
  /\ results = <<>>
  /\ aggregate = NoAggregate
  /\ code = <<>>
  /\ codeType = "string"
  /\ metrics = NoMetrics
  /\ moodResult = NoVerdict
  /\ suggestions = <<>>
  /\ pc = "getCodeFiles"

NextDirectory == GetCodeFiles \/ AnalyzeFile \/ AggregateResults

SpecDirectory == InitDirectory /\ [][NextDirectory]_vars

-----------------------------------------------------------------------------
(* getCodeFiles on directory trees                                         *)

MaxLevels == 7

\* <<name, readable>> of sub-directories: an ordinary one that can and one
\* that cannot be read, and a skipped one.
SampleDirectories ==
  { <<<<"l","i","b">>, TRUE>>, <<<<"l","i","b">>, FALSE>>,
    <<<<".","g","i","t">>, TRUE>> }

\* What every directory of a tree holds, around its sub-directories: two
\* supported files, one of them with an extension in capitals, a file
\* without and a file with an unsupported extension, and a symbolic link
\* with a supported extension.
Listing(children) ==
  << Entry(<<"a",".","j","s">>, File(TRUE, <<>>)),
     Entry(<<"R","E","A","D","M","E">>, File(TRUE, <<>>)) >>
    \o children \o
  << Entry(<<"B",".","P","Y">>, File(TRUE, <<>>)),
     Entry(<<"n","o","t","e","s",".","t","x","t">>, File(TRUE, <<>>)),
     Entry(<<"l","i","n","k",".","t","s">>, SymbolicLink) >>

\* A chain of directories, one per level: levels[k] is <<name, readable>> of
\* the directory at depth k - 1, which holds the directory of the next level.
RECURSIVE Chain(_, _)
Chain(levels, k) ==
  Directory(levels[k][2],
            Listing(IF k < Len(levels)
                    THEN <<Entry(levels[k + 1][1], Chain(levels, k + 1))>>
                    ELSE <<>>))

\* The directory given to main has no name that matters; below it every
\* directory is one of the samples.
InitTree ==
  /\ \E n \in 1..MaxLevels :
       \E top \in BOOLEAN :
         \E below \in [2..n -> SampleDirectories] :
           fs = Chain([k \in 1..n |->
                         IF k = 1 THEN <<<<>>, top>> ELSE below[k]], 1)
  /\ args = <<CurrentDirectory>>
  /\ exitCode = 0
  /\ effects = <<>>
  /\ files = <<>>
  /\ cursor = 0
  /\ analyzed = <<>>
  /\ calls = <<>>
  /\ results = <<>>
  /\ aggregate = NoAggregate
  /\ code = <<>>
  /\ codeType = "string"
  /\ metrics = NoMetrics
  /\ moodResult = NoVerdict
  /\ suggestions = <<>>
  /\ pc = "getCodeFiles"

NextTree == GetCodeFiles

SpecTree == InitTree /\ [][NextTree]_vars

-----------------------------------------------------------------------------
(* main: the command line                                                  *)

\* args.includes(arg)
includes(argv, arg) == \E i \in 1..Len(argv) : argv[i] = arg

\* Mutant: the version flags are looked for before the help flags.
branch_versionFirst(argv) ==
  IF includes(argv, <<"-","-","v","e","r","s","i","o","n">>) \/ includes(argv, <<"-","v">>)
  THEN "printVersion"
  ELSE IF Len(argv) = 0 \/ includes(argv, <<"-","-","h","e","l","p">>) \/ includes(argv, <<"-","h">>)
  THEN "printHelp"
  ELSE IF includes(argv, <<"-","-","m","o","o","d","s">>)
  THEN "printMoods"
  ELSE "target"

\* The three if statements at the head of main: the function that prints
\* and returns, or "target" when args[0] is taken as the path to analyze.
branch(argv) ==
  IF Len(argv) = 0 \/ includes(argv, <<"-","-","h","e","l","p">>) \/ includes(argv, <<"-","h">>)
  THEN "printHelp"
  ELSE IF includes(argv, <<"-","-","v","e","r","s","i","o","n">>) \/ includes(argv, <<"-","v">>)
  THEN "printVersion"
  ELSE IF includes(argv, <<"-","-","m","o","o","d","s">>)
  THEN "printMoods"
  ELSE "target"

\* fs.existsSync(pathToCheck)
pathExists(pathToCheck) == lookup(fs, pathToCheck, 1).kind # "missing"

\* fs.statSync(pathToCheck).isDirectory(), false when statSync throws
isDirectory(pathToCheck) == lookup(fs, pathToCheck, 1).kind = "directory"

\* Something main did that can be seen from outside: a call of a printing
\* function or of console.error, or a question to the file system.
Effect(op, path) == [op |-> op, path |-> path]

\* The single-file branch once the file type is accepted: the call of
\* analyzeFile, and console.log(formatResults(...)) when there is a result.
reportFile(fullPath, result) ==
  /\ analyzed' = Append(analyzed, [file |-> fullPath, result |-> result])
  /\ effects' =
       <<Effect("pathExists", fullPath), Effect("isDirectory", fullPath),
         Effect("isSupportedFile", fullPath)>>
         \o (IF result.type # "null"
             THEN <<Effect("formatResults", fullPath)>> ELSE <<>>)

\* main up to the directory branch, and its single-file branch.
\* process.exit(1) ends the process.  isSupportedFile(fullPath) looks at the
\* extension of the last name of the path, as path.extname does.
Main ==
  /\ pc = "main"
  /\ IF branch(args) # "target"
     THEN /\ effects' = <<Effect(branch(args), <<>>)>>
          /\ pc' = "return"
          /\ UNCHANGED <<exitCode, analyzed>>
     ELSE LET fullPath == resolve(args[1])
          IN  IF ~pathExists(fullPath)
              THEN /\ effects' = <<Effect("pathExists", fullPath),
                                   Effect("console.error", fullPath)>>
                   /\ exitCode' = 1
                   /\ pc' = "exit"
                   /\ UNCHANGED analyzed
              ELSE IF isDirectory(fullPath)
              THEN /\ effects' = <<Effect("pathExists", fullPath),
                                   Effect("isDirectory", fullPath)>>
                   /\ pc' = "getCodeFiles"
                   /\ UNCHANGED <<exitCode, analyzed>>
              ELSE IF ~isSupportedFile(fullPath[Len(fullPath)])
              THEN /\ effects' = <<Effect("pathExists", fullPath),
                                   Effect("isDirectory", fullPath),
                                   Effect("isSupportedFile", fullPath),
                                   Effect("console.error", fullPath)>>
                   /\ exitCode' = 1
                   /\ pc' = "exit"
                   /\ UNCHANGED analyzed
              ELSE /\ reportFile(fullPath, analyzeFile(fullPath))
                   /\ pc' = "return"
                   /\ UNCHANGED exitCode
  /\ UNCHANGED <<code, codeType, metrics, moodResult, suggestions, results,
                 aggregate, fs, files, cursor, calls, args>>

MaxArgs == 3

\* The flags main knows.
Flags ==
  { <<"-","-","h","e","l","p">>, <<"-","h">>,
    <<"-","-","v","e","r","s","i","o","n">>, <<"-","v">>,
    <<"-","-","m","o","o","d","s">> }

\* The directory the process runs in: two supported files, one of them
\* empty, a file of an unsupported type, and a directory whose name ends
\* like an unsupported file, with one supported file.
SampleProject ==
  Directory(TRUE,
    << Entry(<<"a",".","j","s">>, File(TRUE, <<"x">>)),
       Entry(<<"e","m","p","t","y",".","p","y">>, File(TRUE, <<>>)),
       Entry(<<"n","o","t","e","s",".","t","x","t">>, File(TRUE, <<"x">>)),
       Entry(<<"l","i","b",".","d">>,
             Directory(TRUE, <<Entry(<<"c",".","g","o">>, File(TRUE, <<"/","/"," ","G","o","o","d">>))>>)) >>)

\* Paths a user may name: the directory itself, its entries, and a name
\* that is not there.
Targets ==
  { CurrentDirectory, <<"a",".","j","s">>, <<"e","m","p","t","y",".","p","y">>,
    <<"n","o","t","e","s",".","t","x","t">>, <<"l","i","b",".","d">>,
    <<"g","o","n","e",".","j","s">> }

\* process.argv.slice(2): at most MaxArgs flags and paths in any order.
InitMain ==
  /\ \E n \in 0..MaxArgs : args \in [1..n -> Flags \cup Targets]
  /\ fs = SampleProject
  /\ exitCode = 0
  /\ effects = <<>>
  /\ files = <<>>
  /\ cursor = 0
  /\ analyzed = <<>>
  /\ calls = <<>>
  /\ results = <<>>
  /\ aggregate = NoAggregate
  /\ code = <<>>
  /\ codeType = "string"
  /\ metrics = NoMetrics
  /\ moodResult = NoVerdict
  /\ suggestions = <<>>
  /\ pc = "main"

NextMain == Main \/ GetCodeFiles \/ AnalyzeFile \/ AggregateResults

SpecMain == InitMain /\ [][NextMain]_vars

-----------------------------------------------------------------------------
(* Properties of determineMood                                             *)

\* determineMood has returned: moodResult is the verdict of metrics.
MoodDone == pc \in {"generateSuggestions", "done"}

\* commentLines / max(codeLines, 1) of the classified record, times 100,
\* against a percentage p: written on the record's fields alone.
CommentPercentAtLeast(p) ==
  metrics.commentLines * 100 >= p * (IF metrics.codeLines >= 1 THEN metrics.codeLines ELSE 1)

\* (exclamationMarks + questionMarks) / max(totalLines, 1) > p / 10
PunctuationAboveTenths(p) ==
  (metrics.exclamationMarks + metrics.questionMarks) * 10
    > p * (IF metrics.totalLines >= 1 THEN metrics.totalLines ELSE 1)

\* C1: the reported score is an integer between 0 and 100, however far
\* outside that range the accumulated score lies.
C1_ScoreClamped ==
  MoodDone => moodResult.score \in 0..100

\* C1 witness: hundreds of negative words, accumulated score far below 0.
C1_Witness ==
  /\ MoodDone
  /\ metrics.negativeWords = ManyWords
  /\ metrics.positiveWords = 0
  /\ moodScore(metrics) < -1000
  /\ moodResult.score = 0

\* C2 as stated: comment ratio below 0.02 and more than 50 lines give the
\* mood mysterious and the flag isMysterious, whatever the score.
C2_MysteriousRegardless ==
  (MoodDone /\ ~CommentPercentAtLeast(2) /\ metrics.totalLines > 50)
    => (moodResult.mood = "mysterious" /\ moodResult.isMysterious)

\* C2 amended: comment ratio below 0.02 and more than 50 lines give the flag
\* isMysterious; the mood is mysterious unless the record is chaotic
\* (nesting depth above 5 or punctuation density above 0.3) with a raw score
\* below 40, and then the mood is chaotic.
C2_MysteriousUnlessChaotic ==
  (MoodDone /\ ~CommentPercentAtLeast(2) /\ metrics.totalLines > 50)
    => /\ moodResult.isMysterious
       /\ IF (metrics.nestingDepth > 5 \/ PunctuationAboveTenths(3))
             /\ moodScore(metrics) < 40
          THEN moodResult.mood = "chaotic"
          ELSE moodResult.mood = "mysterious"

\* C2 witness: an uncommented long file whose raw score is in the sad band
\* and which is not chaotic is still mysterious.
C2_Witness ==
  /\ MoodDone
  /\ ~CommentPercentAtLeast(2) /\ metrics.totalLines > 50
  /\ moodScore(metrics) < 25
  /\ ~moodResult.isChaotic
  /\ moodResult.mood = "mysterious"

\* C3: comment ratio at least 0.15, nesting depth at most 3, no hack and a
\* raw score of at least 60 give the mood zen and the flag isZen.
C3_Zen ==
  (MoodDone /\ CommentPercentAtLeast(15) /\ metrics.nestingDepth <= 3
     /\ metrics.hackCount = 0 /\ moodScore(metrics) >= 60)
    => (moodResult.mood = "zen" /\ moodResult.isZen)

\* C3 witness: zen is chosen at nesting depth 3 although the record is
\* chaotic as well.
C3_Witness ==
  /\ MoodDone
  /\ metrics.nestingDepth = 3
  /\ moodResult.isChaotic
  /\ moodResult.mood = "zen"

\* C4: a special mood name comes only with its flag and its score
\* condition, and a verdict with no flag has one of the seven band labels.
C4_SpecialNeedsFlag ==
  MoodDone =>
    /\ moodResult.mood = "zen" => (moodResult.isZen /\ moodScore(metrics) >= 60)
    /\ moodResult.mood = "chaotic" => (moodResult.isChaotic /\ moodScore(metrics) < 40)
    /\ moodResult.mood = "mysterious" => moodResult.isMysterious
    /\ (~moodResult.isZen /\ ~moodResult.isChaotic /\ ~moodResult.isMysterious)
         => moodResult.mood \in BandMoods

\* C4 witness: a chaotic record whose raw score is 40 or more does not get
\* the name chaotic; it is mysterious, with both flags set.
C4_Witness ==
  /\ MoodDone
  /\ moodResult.isChaotic
  /\ moodScore(metrics) >= 40
  /\ moodResult.mood = "mysterious"

\* The score of C5, written from the claim on the fields of a record.
C5_R(m) ==
  LET d == IF m.codeLines >= 1 THEN m.codeLines ELSE 1
  IN  CASE m.commentLines * 10 >= 2 * d -> 15
        [] m.commentLines * 10 < 2 * d /\ m.commentLines * 10 >= d -> 5
        [] m.commentLines * 10 < d /\ m.commentLines * 100 < 5 * d -> -10
        [] OTHER -> 0

C5_N(m) == CASE m.nestingDepth > 5 -> -15 [] m.nestingDepth \in {4, 5} -> -5 [] OTHER -> 0

C5_L(m) == CASE m.longestLine > 150 -> -10 [] m.longestLine \in 101..150 -> -5 [] OTHER -> 0

C5_P(m) ==
  LET t == IF m.totalLines >= 1 THEN m.totalLines ELSE 1
  IN  IF (m.exclamationMarks + m.questionMarks) * 10 > 5 * t THEN -15 ELSE 0

C5_T(m) == IF m.hasTests THEN 10 ELSE 0

C5_Raw(m) ==
  50 + C5_R(m) + 5 * m.positiveWords - 8 * m.negativeWords - 10 * m.stressWords
     - 3 * m.todoCount - 5 * m.fixmeCount - 7 * m.hackCount
     + C5_N(m) + C5_L(m) + C5_P(m) + C5_T(m)

\* C5: the raw score is 50 + R + 5 positive - 8 negative - 10 stress
\* - 3 todo - 5 fixme - 7 hack + N + L + P + T, and the reported score is
\* that value clamped to 0..100.
C5_ScoreFormula ==
  MoodDone =>
    /\ moodScore(metrics) = C5_Raw(metrics)
    /\ moodResult.score =
         (IF C5_Raw(metrics) < 0 THEN 0
          ELSE IF C5_Raw(metrics) > 100 THEN 100 ELSE C5_Raw(metrics))

\* C5 witness: comment ratio exactly 0.05 (no adjustment), very deep
\* nesting, a very long line, dense punctuation and tests, all at once.
C5_Witness ==
  /\ MoodDone
  /\ metrics.commentLines * 20 = metrics.codeLines /\ metrics.codeLines > 0
  /\ metrics.nestingDepth > 5
  /\ metrics.longestLine > 150
  /\ PunctuationAboveTenths(5)
  /\ metrics.hasTests
  /\ metrics.todoCount = 1 /\ metrics.fixmeCount = 1 /\ metrics.hackCount = 1
  /\ moodResult.score = 50 - 15 - 10 - 15 + 10 - 3 - 5 - 7

\* C6: the mood is the first match of: zen flag and score >= 60; chaotic
\* flag and score < 40; mysterious flag; then the score bands 80, 65, 55,
\* 45, 35, 25.  Each record gets exactly one of the ten labels.
C6_Priority ==
  MoodDone =>
    LET s == moodScore(metrics)
        zen == moodResult.isZen /\ s >= 60
        chaotic == ~zen /\ moodResult.isChaotic /\ s < 40
        mysterious == ~zen /\ ~chaotic /\ moodResult.isMysterious
        banded == ~zen /\ ~chaotic /\ ~mysterious
        label == moodResult.mood
    IN  /\ label \in Moods
        /\ (label = "zen") <=> zen
        /\ (label = "chaotic") <=> chaotic
        /\ (label = "mysterious") <=> mysterious
        /\ (label = "ecstatic") <=> (banded /\ s >= 80)
        /\ (label = "happy") <=> (banded /\ s >= 65 /\ s < 80)
        /\ (label = "content") <=> (banded /\ s >= 55 /\ s < 65)
        /\ (label = "neutral") <=> (banded /\ s >= 45 /\ s < 55)
        /\ (label = "stressed") <=> (banded /\ s >= 35 /\ s < 45)
        /\ (label = "frustrated") <=> (banded /\ s >= 25 /\ s < 35)
        /\ (label = "sad") <=> (banded /\ s < 25)

\* C6 witness: chaotic wins over mysterious when both flags are set and the
\* raw score is below 40.
C6_Witness ==
  /\ MoodDone
  /\ moodResult.isChaotic /\ moodResult.isMysterious
  /\ moodScore(metrics) < 40
  /\ moodResult.mood = "chaotic"

\* C9: very deep nesting, no tests, no positive word and at least one
\* negative or stress word give a mood among sad, frustrated, stressed and
\* chaotic, and a score below 50.
C9_NegativeCode ==
  (MoodDone /\ metrics.nestingDepth > 5 /\ ~metrics.hasTests
     /\ metrics.positiveWords = 0
     /\ metrics.negativeWords + metrics.stressWords >= 1)
    => /\ moodResult.mood \in {"sad", "frustrated", "stressed", "chaotic"}
       /\ moodResult.score < 50

\* C9 witness: the mildest such record, one negative word in well commented
\* code, scores 42 and is stressed.
C9_Witness ==
  /\ MoodDone
  /\ metrics.nestingDepth > 5 /\ ~metrics.hasTests
  /\ metrics.positiveWords = 0
  /\ metrics.negativeWords = 1 /\ metrics.stressWords = 0
  /\ moodResult.score = 42
  /\ moodResult.mood = "stressed"

-----------------------------------------------------------------------------
(* Properties of generateSuggestions                                       *)

SuggestDone == pc = "done"

\* The eight messages in their fixed order, each with its condition, written
\* from the claim on the fields of the record and the mood of the verdict.
C8_Table ==
  LET d == IF metrics.codeLines >= 1 THEN metrics.codeLines ELSE 1
  IN  << <<metrics.commentLines * 10 < d, MsgComments>>,
         <<metrics.nestingDepth >= 5, MsgNesting>>,
         <<metrics.hackCount >= 1, MsgHacks(metrics.hackCount)>>,
         <<metrics.todoCount >= 4, MsgTodos>>,
         <<metrics.longestLine >= 121, MsgLongLines>>,
         <<moodResult.mood = "zen", MsgZen>>,
         <<moodResult.mood = "mysterious", MsgMysterious>>,
         <<(~metrics.hasTests) /\ metrics.functionCount >= 4, MsgTests>> >>

-----------------------------------------------------------------------------
(* Properties of calculateAggregateMood                                    *)

Aggregated == pc = "aggregated"

\* The sum of f over the first n results, counted from the last one back.
RECURSIVE C10_Sum(_, _)
C10_Sum(f(_), n) == IF n = 0 THEN 0 ELSE f(results[n]) + C10_Sum(f, n - 1)

C10_Score(r) == r.moodResult.score

\* C10: fileCount is the number of results, avgScore is the mean score
\* rounded to the nearest integer with a half going up, and every field of
\* totals is the sum of that field over the results.
C10_Aggregate ==
  Aggregated =>
    LET n == Len(results)
        total == C10_Sum(C10_Score, n)
    IN  /\ n >= 1
        /\ aggregate.fileCount = n
        /\ 2 * n * aggregate.avgScore - n <= 2 * total
        /\ 2 * total < 2 * n * aggregate.avgScore + n
        /\ DOMAIN aggregate.totals = TotalsFields
        /\ \A field \in TotalsFields :
             LET value(r) == r.metrics[field]
             IN  aggregate.totals[field] = C10_Sum(value, n)

\* C10 witness: the two results of the test, scores 70 and 35, average 53,
\* 150 lines and 8 functions in all.
C10_Witness ==
  /\ Aggregated
  /\ Len(results) = 2
  /\ results[1].moodResult.score = 70
  /\ results[2].moodResult.score = 35
  /\ results[1].metrics.totalLines = 100 /\ results[2].metrics.totalLines = 50
  /\ aggregate.avgScore = 53
  /\ aggregate.totals.totalLines = 150
  /\ aggregate.totals.functionCount = 8

-----------------------------------------------------------------------------
(* Properties of analyzeCode                                               *)

\* analyzeCode has returned: metrics is the record of code.
AnalyzeDone == pc \in {"determineMood", "generateSuggestions", "done"}

\* C7: every line is counted as exactly one of blank, comment or code: the
\* three counters add up to totalLines, which is the number of segments
\* between the newlines of the text and so at least 1.
C7_LinePartition ==
  AnalyzeDone =>
    /\ metrics.codeLines >= 0 /\ metrics.commentLines >= 0 /\ metrics.blankLines >= 0
    /\ metrics.codeLines + metrics.commentLines + metrics.blankLines = metrics.totalLines
    /\ metrics.totalLines = 1 + Cardinality({i \in 1..Len(code) : code[i] = "\n"})
    /\ metrics.totalLines >= 1

\* C7 witness: a text with a comment line, a code line and a blank line.
C7_Witness ==
  /\ AnalyzeDone
  /\ metrics.commentLines = 1
  /\ metrics.codeLines = 1
  /\ metrics.blankLines = 1
  /\ metrics.totalLines = 3

-----------------------------------------------------------------------------
(* Properties of the dominant mood                                         *)

\* The number of results of the list whose verdict is the mood.
C11_Count(mood) ==
  Cardinality({i \in 1..Len(results) : results[i].moodResult.mood = mood})

\* The place of the first result of the list whose verdict is the mood.
C11_First(mood) ==
  CHOOSE i \in 1..Len(results) :
    /\ results[i].moodResult.mood = mood
    /\ \A j \in 1..(i - 1) : results[j].moodResult.mood # mood

\* The moods that occur in the list.
C11_Seen == {results[i].moodResult.mood : i \in 1..Len(results)}

RECURSIVE C11_SumCounts(_, _)
C11_SumCounts(moodCounts, i) ==
  IF i > Len(moodCounts) THEN 0
  ELSE moodCounts[i][2] + C11_SumCounts(moodCounts, i + 1)

\* C11: on a non-empty list of results, moodCounts holds for every mood of
\* the list the number of results with that mood, the counts add up to
\* fileCount, dominantMood is a mood whose count is maximal, and among the
\* moods with the maximal count it is the one that occurs first in the list.
C11_DominantMood ==
  Aggregated =>
    /\ {e[1] : e \in Range(aggregate.moodCounts)} = C11_Seen
    /\ \A e \in Range(aggregate.moodCounts) : e[2] = C11_Count(e[1])
    /\ C11_SumCounts(aggregate.moodCounts, 1) = aggregate.fileCount
    /\ aggregate.dominantMood \in C11_Seen
    /\ \A mood \in C11_Seen :
         /\ C11_Count(mood) <= C11_Count(aggregate.dominantMood)
         /\ C11_Count(mood) = C11_Count(aggregate.dominantMood) =>
              C11_First(aggregate.dominantMood) <= C11_First(mood)

\* Two results with two moods, one result each: the mood seen first wins
\* the tie.
C11_Witness ==
  /\ Aggregated
  /\ Len(results) = 2
  /\ results[1].moodResult.mood = "stressed"
  /\ results[2].moodResult.mood = "happy"
  /\ aggregate.moodCounts = << <<"stressed", 1>>, <<"happy", 1>> >>
  /\ aggregate.dominantMood = "stressed"

-----------------------------------------------------------------------------
(* Properties of the pipeline on any text                                  *)

\* The ten mood labels.
C12_Labels ==
  {"ecstatic", "happy", "content", "neutral", "stressed", "frustrated", "sad",
   "chaotic", "zen", "mysterious"}

\* The step that follows each step of the pipeline.
C12_Successor ==
  [analyzeCode |-> "determineMood", determineMood |-> "generateSuggestions",
   generateSuggestions |-> "done"]

\* What holds of the verdict at every step.
C12_Verdict ==
  codeType = "string" =>
    /\ pc \in DOMAIN C12_Successor \cup {"done"}
    /\ MoodDone =>
         /\ moodResult.mood \in C12_Labels
         /\ moodResult.emoji = MOOD_EMOJIS[moodResult.mood]
         /\ moodResult.description = MOOD_DESCRIPTIONS[moodResult.mood]
    /\ SuggestDone => Len(suggestions) \in 0..8

\* C12: for every text that is a string, the empty one and those without a
\* line of code included, analyzeCode, determineMood and generateSuggestions
\* run to the end without an error: no step throws, each step hands over to
\* the next one, and the verdict carries one of the ten labels with the emoji
\* and the description the tables hold for that label.
C12_Pipeline ==
  /\ []C12_Verdict
  /\ [][codeType = "string" => pc' = C12_Successor[pc]]_vars

\* The empty text went through the three steps: its single blank line gives
\* a comment ratio of 0 and the verdict "stressed".
C12_Witness ==
  /\ pc = "done"
  /\ codeType = "string"
  /\ code = <<>>
  /\ metrics.codeLines = 0
  /\ moodResult.mood = "stressed"
  /\ moodResult.emoji = MOOD_EMOJIS["stressed"]

\* The record analyzeCode returns for a text without any content.
C13_Degenerate(filename) ==
  [filename |-> filename, totalLines |-> 1, codeLines |-> 0,
   commentLines |-> 0, blankLines |-> 1, avgLineLength |-> 0,
   longestLine |-> 0, shortestNonEmptyLine |-> 0,
   exclamationMarks |-> 0, questionMarks |-> 0, positiveWords |-> 0,
   negativeWords |-> 0, stressWords |-> 0, todoCount |-> 0, fixmeCount |-> 0,
   hackCount |-> 0, functionCount |-> 0, variableDeclarations |-> 0,
   nestingDepth |-> 0, hasTests |-> FALSE]

\* C13: analyzeCode('') returns totalLines 1, blankLines 1, codeLines 0,
\* commentLines 0, avgLineLength 0, longestLine 0, shortestNonEmptyLine 0,
\* nestingDepth 0, every counter 0 and hasTests false.
C13_EmptyText ==
  (AnalyzeDone /\ codeType = "string" /\ code = <<>>) =>
    metrics = C13_Degenerate(metrics.filename)

C13_Witness ==
  /\ pc = "determineMood"
  /\ codeType = "string"
  /\ code = <<>>
  /\ metrics.filename = "unknown"
  /\ metrics.totalLines = 1
  /\ metrics.blankLines = 1
  /\ metrics.shortestNonEmptyLine = 0

\* C14 as stated: called with null or undefined in place of the text,
\* analyzeCode does not throw and returns the record of the empty text.
C14_AbsentText ==
  (codeType \in {"null", "undefined"} /\ pc # "analyzeCode") =>
    /\ pc # "TypeError"
    /\ metrics = C13_Degenerate(metrics.filename)

-----------------------------------------------------------------------------
(* The fields the verdict depends on                                       *)

\* The record m with the six fields determineMood does not score replaced.
C15_Variant(m, filename, bl, avg, shortest, fc, vd) ==
  [m EXCEPT
     !.filename = filename, !.blankLines = bl, !.avgLineLength = avg,
     !.shortestNonEmptyLine = shortest, !.functionCount = fc,
     !.variableDeclarations = vd]

\* Records that agree with m on the fourteen scoring fields: each of the
\* six other fields changed alone, and all six changed together.
C15_Variants(m) ==
  { C15_Variant(m, "other.py", m.blankLines, m.avgLineLength,
                m.shortestNonEmptyLine, m.functionCount,
                m.variableDeclarations),
    C15_Variant(m, m.filename, 40, m.avgLineLength, m.shortestNonEmptyLine,
                m.functionCount, m.variableDeclarations),
    C15_Variant(m, m.filename, m.blankLines, 160, m.shortestNonEmptyLine,
                m.functionCount, m.variableDeclarations),
    C15_Variant(m, m.filename, m.blankLines, m.avgLineLength, 160,
                m.functionCount, m.variableDeclarations),
    C15_Variant(m, m.filename, m.blankLines, m.avgLineLength,
                m.shortestNonEmptyLine, 12, m.variableDeclarations),
    C15_Variant(m, m.filename, m.blankLines, m.avgLineLength,
                m.shortestNonEmptyLine, m.functionCount, 30),
    C15_Variant(m, "", 51, 120, 101, 4, 7) }

\* C15: the verdict depends only on the scoring fields.  A record that
\* differs from the analyzed one in filename, blankLines, avgLineLength,
\* shortestNonEmptyLine, functionCount or variableDeclarations only gets
\* the verdict the analyzed record got, and calling determineMood on the
\* analyzed record again, behind those other calls, returns the same verdict.
C15_ScoringFieldsOnly ==
  MoodDone =>
    /\ \A v \in C15_Variants(metrics) : determineMood(v) = moodResult
    /\ determineMood(metrics) = moodResult

\* A verdict all of whose flags and score are decided: zen, reached with
\* tests and many positive words; its variants differ from it in all six
\* fields.
C15_Witness ==
  /\ MoodDone
  /\ moodResult.mood = "zen"
  /\ metrics.hasTests
  /\ Cardinality(C15_Variants(metrics)) = 7
  /\ \A v \in C15_Variants(metrics) : v # metrics /\ determineMood(v).mood = "zen"

-----------------------------------------------------------------------------
(* Properties of the nesting depth and of the line lengths                 *)

\* The places of the text where a line ends: in front of every line break
\* and behind the last character.
C18_LineEnds == {j \in 0..Len(code) : j = Len(code) \/ code[j + 1] = "\n"}

\* The opening braces less the closing braces among the first j characters.
C18_Balance(j) ==
  Cardinality({i \in 1..j : code[i] = "{"})
    - Cardinality({i \in 1..j : code[i] = "}"})

\* The largest balance found at the end of a line, and 0 if none is above 0.
C18_Peak ==
  LET levels == {0} \cup {C18_Balance(j) : j \in C18_LineEnds}
  IN  CHOOSE d \in levels : \A e \in levels : e <= d

\* C18: nestingDepth is the maximum, over the lines, of the balance of
\* opening and closing braces of the text up to the end of that line, and 0
\* when that balance is never positive; a brace opened and closed on the
\* same line does not raise it.
C18_NestingDepth == AnalyzeDone => metrics.nestingDepth = C18_Peak

\* A closing brace on the first line, two opening braces on the second: the
\* balance is -1, then 1.
C18_Witness ==
  /\ AnalyzeDone
  /\ code = <<"}", "\n", "{", "{">>
  /\ metrics.nestingDepth = 1

\* The places in front of the lines of the text.
C19_LineStarts == {0} \cup {j \in 1..Len(code) : code[j] = "\n"}

\* The length of the line that starts behind place s, once the white space
\* at its two ends is taken away.
C19_TrimmedLength(s) ==
  LET breaks == {j \in (s + 1)..Len(code) : code[j] = "\n"}
      end == IF breaks = {} THEN Len(code) + 1
             ELSE CHOOSE j \in breaks : \A k \in breaks : j <= k
      inked == {i \in (s + 1)..(end - 1) : code[i] \notin WhiteSpace}
  IN  IF inked = {} THEN 0
      ELSE (CHOOSE i \in inked : \A k \in inked : k <= i)
             - (CHOOSE i \in inked : \A k \in inked : i <= k) + 1

\* The starts of the lines that are not blank.
C19_NonBlank == {s \in C19_LineStarts : C19_TrimmedLength(s) > 0}

RECURSIVE C19_Total(_)
C19_Total(starts) ==
  IF starts = {} THEN 0
  ELSE LET s == CHOOSE x \in starts : TRUE
       IN  C19_TrimmedLength(s) + C19_Total(starts \ {s})

\* C19: avgLineLength is the mean of the trimmed lengths of the non-blank
\* lines, rounded to the nearest integer (a half going up); longestLine and
\* shortestNonEmptyLine are the largest and the smallest of these lengths;
\* the three are 0 when every line is blank; otherwise
\* 1 <= shortestNonEmptyLine <= avgLineLength <= longestLine.
C19_LineLengths ==
  AnalyzeDone =>
    LET n == Cardinality(C19_NonBlank)
        total == C19_Total(C19_NonBlank)
        lengths == {C19_TrimmedLength(s) : s \in C19_NonBlank}
    IN  IF n = 0
        THEN /\ metrics.avgLineLength = 0
             /\ metrics.longestLine = 0
             /\ metrics.shortestNonEmptyLine = 0
        ELSE /\ 2 * n * metrics.avgLineLength - n <= 2 * total
             /\ 2 * total < 2 * n * metrics.avgLineLength + n
             /\ metrics.longestLine \in lengths
             /\ metrics.shortestNonEmptyLine \in lengths
             /\ \A l \in lengths :
                  metrics.shortestNonEmptyLine <= l /\ l <= metrics.longestLine
             /\ 1 <= metrics.shortestNonEmptyLine
             /\ metrics.shortestNonEmptyLine <= metrics.avgLineLength
             /\ metrics.avgLineLength <= metrics.longestLine

\* Two lines of lengths 1 and 2: the mean 1.5 is rounded up to 2.
C19_Witness ==
  /\ AnalyzeDone
  /\ code = <<"x", "\n", "x", "x">>
  /\ metrics.shortestNonEmptyLine = 1
  /\ metrics.avgLineLength = 2
  /\ metrics.longestLine = 2

-----------------------------------------------------------------------------
(* Properties of analyzeFile and of main in directory mode                 *)

\* C16 as stated: analyzeFile returns null exactly when readFile returned
\* null; for every content that was read, the empty one included, it
\* returns an object { metrics, moodResult, suggestions }.
C16_NullIffUnread ==
  \A k \in 1..Len(analyzed) :
    analyzed[k].result.type = "null" <=>
      readFile(analyzed[k].file).type = "null"

\* The results of the calls of analyzeFile that returned one, in the order
\* of the calls.
C17_Successes ==
  LET ok == SelectSeq(analyzed, LAMBDA a : a.result.type # "null")
  IN  [k \in 1..Len(ok) |-> ok[k].result]

\* C17: in directory mode main calls analyzeFile on the files getCodeFiles
\* returned, one call per file, in the order of the list; a file without a
\* result is passed over and the files behind it are analyzed all the same;
\* calculateAggregateMood is called at most once, behind the last file, only
\* when a file had a result, and its argument is the list of the results in
\* the order of their files, never the empty list.
C17_DirectoryMode ==
  /\ Len(analyzed) <= Len(files)
  /\ \A k \in 1..Len(analyzed) : analyzed[k].file = files[k]
  /\ \A k, l \in 1..Len(files) : files[k] = files[l] => k = l
  /\ results = C17_Successes
  /\ pc = "return" => Len(analyzed) = Len(files)
  /\ Len(calls) <= 1
  /\ Len(calls) = 1 =>
       /\ Len(analyzed) = Len(files)
       /\ calls[1] # <<>>
       /\ calls[1] = C17_Successes

\* Three files, the first and the last without a result: all three were
\* analyzed and the aggregate was computed once, from the second alone.
C17_Witness ==
  /\ pc = "return"
  /\ Len(files) = 3
  /\ Len(analyzed) = 3
  /\ analyzed[1].result.type = "null"
  /\ analyzed[2].result.type = "object"
  /\ analyzed[3].result.type = "null"
  /\ Len(calls) = 1
  /\ Len(calls[1]) = 1
  /\ aggregate.fileCount = 1

-----------------------------------------------------------------------------
(* Properties of getCodeFiles                                              *)

\* Every path of the tree under node, node being what path names.
RECURSIVE C20_Paths(_, _)
C20_Paths(node, path) ==
  {path} \cup
    UNION {C20_Paths(node.entries[k].node, Append(path, node.entries[k].name)) :
             k \in 1..Len(node.entries)}

\* The name ends in a supported extension, whatever the case of its letters.
C20_Supported(name) ==
  \E ext \in SUPPORTED_EXTENSIONS :
    /\ Len(name) > Len(ext)
    /\ toLowerCase(SubSeq(name, Len(name) - Len(ext) + 1, Len(name))) = ext

\* The names of the directories that are not entered.
C20_Skipped ==
  { <<"n","o","d","e","_","m","o","d","u","l","e","s">>, <<".","g","i","t">>,
    <<"d","i","s","t">>, <<"b","u","i","l","d">>,
    <<"c","o","v","e","r","a","g","e">>,
    <<"_","_","p","y","c","a","c","h","e","_","_">>, <<".","n","e","x","t">> }

\* The regular files with a supported extension whose directory is at depth
\* 5 at most, below sub-directories that are not skipped, every directory on
\* the way being readable.
C20_Expected ==
  { p \in C20_Paths(fs, <<>>) :
      /\ Len(p) >= 1
      /\ lookup(fs, p, 1).kind = "file"
      /\ C20_Supported(p[Len(p)])
      /\ Len(p) - 1 <= 5
      /\ \A k \in 1..(Len(p) - 1) : p[k] \notin C20_Skipped
      /\ \A k \in 0..(Len(p) - 1) :
           LET dir == lookup(fs, SubSeq(p, 1, k), 1)
           IN  dir.kind = "directory" /\ dir.readable }

\* C20: getCodeFiles(dirPath) returns, each once, the regular files with a
\* supported extension (letters of either case) that lie in a directory at
\* depth 5 at most below dirPath (depth 0), reached through sub-directories
\* none of which has a skipped name; a directory that cannot be read adds no
\* file, raises no error and leaves the files of the other directories in
\* the list.
C20_CodeFiles ==
  pc # "getCodeFiles" =>
    /\ Range(files) = C20_Expected
    /\ Len(files) = Cardinality(C20_Expected)

\* Seven directories in a chain: the two supported files of each of the
\* first six are listed, those of the seventh, at depth 6, are not.
C20_Witness ==
  /\ pc = "analyzeFile"
  /\ Len(files) = 12
  /\ \E p \in Range(files) : Len(p) = 6 /\ p[6] = <<"B", ".", "P", "Y">>
  /\ \E p \in C20_Paths(fs, <<>>) :
       Len(p) = 7 /\ p[7] = <<"a", ".", "j", "s">> /\ p \notin Range(files)

-----------------------------------------------------------------------------
(* Properties of main                                                      *)

\* One of the arguments, at any place, is the flag.
C21_Has(flag) == \E i \in 1..Len(args) : args[i] = flag

\* What the command line asks for, by precedence.
C21_Wanted ==
  IF args = <<>> \/ C21_Has(<<"-","-","h","e","l","p">>) \/ C21_Has(<<"-","h">>)
  THEN "printHelp"
  ELSE IF C21_Has(<<"-","-","v","e","r","s","i","o","n">>) \/ C21_Has(<<"-","v">>)
  THEN "printVersion"
  ELSE IF C21_Has(<<"-","-","m","o","o","d","s">>)
  THEN "printMoods"
  ELSE "target"

\* The questions to the file system among the effects.
C21_Checks ==
  SelectSeq(effects,
            LAMBDA e : e.op \in {"pathExists", "isDirectory", "isSupportedFile"})

\* What args[0] names, and whether it is a file main refuses.
C21_Target == lookup(fs, resolve(args[1]), 1)

C21_Refused ==
  \/ C21_Target.kind = "missing"
  \/ /\ C21_Target.kind # "directory"
     /\ \A ext \in SUPPORTED_EXTENSIONS :
          \/ Len(args[1]) <= Len(ext)
          \/ toLowerCase(SubSeq(args[1], Len(args[1]) - Len(ext) + 1,
                                Len(args[1]))) # ext

\* C21: main chooses by precedence, wherever the flags stand: without
\* arguments or with --help or -h it prints the help and nothing else; else
\* with --version or -v the version and nothing else; else with --moods the
\* moods and nothing else; in these three cases no path is checked and no
\* file is listed, read or analyzed.  Only otherwise args[0] is the target,
\* and the process exits with status 1 exactly when the target does not
\* exist or is no directory and has an unsupported extension.
C21_Dispatch ==
  /\ pc = "main" => effects = <<>> /\ exitCode = 0
  /\ (pc # "main" /\ C21_Wanted # "target") =>
       /\ effects = <<Effect(C21_Wanted, <<>>)>>
       /\ pc = "return"
       /\ exitCode = 0
       /\ files = <<>>
       /\ analyzed = <<>>
       /\ calls = <<>>
  /\ (pc # "main" /\ C21_Wanted = "target") =>
       /\ \A k \in 1..Len(effects) :
            effects[k].op \notin {"printHelp", "printVersion", "printMoods"}
       /\ C21_Checks # <<>>
       /\ \A k \in 1..Len(C21_Checks) : C21_Checks[k].path = resolve(args[1])
       /\ exitCode = 1 <=> C21_Refused
       /\ exitCode \in {0, 1}
       /\ pc = "exit" <=> exitCode = 1
       /\ C21_Refused => files = <<>> /\ analyzed = <<>> /\ calls = <<>>

\* A path first, then the version flag, then the help flag: only the help
\* is printed.
C21_Witness ==
  /\ pc = "return"
  /\ args = <<<<"a",".","j","s">>, <<"-","v">>,
              <<"-","-","h","e","l","p">>>>
  /\ effects = <<Effect("printHelp", <<>>)>>
  /\ analyzed = <<>>

-----------------------------------------------------------------------------
(* Properties of the suggestions for the verdict of determineMood          *)

\* The message is among the suggestions.
C22_Has(msg) == \E i \in 1..Len(suggestions) : suggestions[i] = msg

\* The hack message is among the suggestions, whatever count it carries.
C22_HasHack == \E k \in 0..(metrics.hackCount + 1) : C22_Has(MsgHacks(k))

\* C22: for the verdict determineMood gave for the same metrics record, the
\* zen praise never comes with the add-comments, the nesting or the hack
\* message, the zen and the mysterious message never come together, and
\* the mysterious message always comes with the add-comments message.
C22_CoOccurrence ==
  SuggestDone =>
    /\ moodResult = determineMood(metrics)
    /\ C22_Has(MsgZen) =>
         ~C22_Has(MsgComments) /\ ~C22_Has(MsgNesting) /\ ~C22_HasHack
    /\ ~(C22_Has(MsgZen) /\ C22_Has(MsgMysterious))
    /\ C22_Has(MsgMysterious) => C22_Has(MsgComments)

\* A mysterious record: its two messages are both there.
C22_Witness ==
  /\ SuggestDone
  /\ moodResult.mood = "mysterious"
  /\ C22_Has(MsgMysterious)
  /\ C22_Has(MsgComments)
  /\ ~C22_Has(MsgZen)

-----------------------------------------------------------------------------
(* Clamping and the mood                                                   *)

\* C23: clamping never changes the mood.  The selection rules of
\* determineMood, run on the reported score, which is clamped to 0..100,
\* with the three reported flags, select the mood that was selected on the
\* score before clamping.
C23_ClampKeepsMood ==
  MoodDone =>
    /\ moodResult.score = Max(0, Min(100, moodScore(metrics)))
    /\ selectMood(moodResult.isZen, moodResult.isChaotic,
                  moodResult.isMysterious, moodResult.score)
         = moodResult.mood

\* A score above 100 before clamping: 100 is reported and the mood is still
\* ecstatic.
C23_Witness ==
  /\ MoodDone
  /\ moodScore(metrics) > 100
  /\ moodResult.score = 100
  /\ moodResult.mood = "ecstatic"

=============================================================================
